---- MODULE Spec2Model ----
(***************************************************************************)
(* Model of cagent's CPU watcher (package cagent, cpu.go): the rolling     *)
(* store TimeSeriesAverage, the watcher constructor Cagent.CPUWatcher, the *)
(* sampling loop CPUWatcher.Run / Once and the readers Results /           *)
(* Percentage / Average.                                                   *)
(*                                                                         *)
(* Time is an integer number of seconds.  A float64 metric value v is kept *)
(* as the integer v * NumCores, which makes the per-type mean over the     *)
(* cores exact.  A rate returned by Percentage is kept as the integer      *)
(* number of ten-thousandths, i.e. the int64 the code converts to before   *)
(* its final division by 10000.                                            *)
(***************************************************************************)
EXTENDS Integers, Sequences, FiniteSets, TLC

(***************************************************************************)
(* Bounds of the model.                                                    *)
(***************************************************************************)
MaxClock == 70
NumCallers == 1
NumCores == 2

(***************************************************************************)
(* Program constants.                                                      *)
(***************************************************************************)
Second == 1
Minute == 60
measureInterval == 5
cpuGetUtilisationTimeout == 10
RateScale == 10000
Unavailable == -1

Cores == 0 .. (NumCores - 1)
Callers == 1 .. NumCallers

(***************************************************************************)
(* Generic helpers.                                                        *)
(***************************************************************************)
Range(s) == {s[i] : i \in 1 .. Len(s)}

SetMax(S) == CHOOSE x \in S : \A y \in S : y <= x

\* Go's conversion int64(f) of the rational n/d (d > 0): truncation toward zero.
TruncDiv(n, d) == IF n >= 0 THEN n \div d ELSE -((-n) \div d)

\* floor(n/d) for d > 0.
FloorDiv(n, d) == n \div d

(***************************************************************************)
(* Strings are sequences of one-character strings, so that prefix tests    *)
(* and number parsing are computed and not assumed.                        *)
(***************************************************************************)
DigitChars == <<"0", "1", "2", "3", "4", "5", "6", "7", "8", "9">>

IsDigit(c) == \E i \in 1 .. 10 : DigitChars[i] = c

DigitVal(c) == (CHOOSE i \in 1 .. 10 : DigitChars[i] = c) - 1

HasPrefix(s, p) == Len(s) >= Len(p) /\ SubSeq(s, 1, Len(p)) = p

RECURSIVE ParseDigits(_, _)
ParseDigits(s, acc) ==
    IF s = <<>> THEN acc
    ELSE ParseDigits(Tail(s), acc * 10 + DigitVal(Head(s)))

\* strconv.Atoi: an optional sign followed by at least one decimal digit.
Atoi(s) ==
    LET signed == s # <<>> /\ Head(s) \in {"-", "+"}
        body   == IF signed THEN Tail(s) ELSE s
        ok     == body # <<>> /\ \A i \in 1 .. Len(body) : IsDigit(body[i])
        mag    == IF ok THEN ParseDigits(body, 0) ELSE 0
    IN  [v   |-> IF signed /\ Head(s) = "-" THEN -mag ELSE mag,
         err |-> ~ok]

avgPrefix == <<"a", "v", "g">>

\* d[3:] of a string that has the prefix "avg".
AfterAvg(d) == SubSeq(d, 4, Len(d))

(***************************************************************************)
(* sort.Ints                                                               *)
(***************************************************************************)
RECURSIVE InsertSorted(_, _)
InsertSorted(s, x) ==
    IF s = <<>> THEN <<x>>
    ELSE IF x <= Head(s) THEN <<x>> \o s
    ELSE <<Head(s)>> \o InsertSorted(Tail(s), x)

RECURSIVE SortInts(_)
SortInts(s) ==
    IF s = <<>> THEN <<>>
    ELSE InsertSorted(SortInts(Tail(s)), Head(s))

\* A plausible slip: the slice is stored and never sorted.
SetDurationsMinutesUnsorted(durations) == durations

\* TimeSeriesAverage.SetDurationsMinutes: the stored slice shares its backing
\* array with the argument, which sort.Ints then sorts in place.
SetDurationsMinutes(durations) == SortInts(durations)

minutes(mins) == Minute * mins

(***************************************************************************)
(* The watcher constructor.                                                *)
(***************************************************************************)
utilisationMetricsByOS(goos) ==
    CASE goos = "windows" -> <<"system", "user", "idle", "irq">>
      [] goos = "linux"   -> <<"system", "user", "nice", "iowait", "idle", "softirq", "irq">>
      [] goos = "freebsd" -> <<"system", "user", "nice", "idle", "irq">>
      [] goos = "solaris" -> <<>>
      [] goos = "openbsd" -> <<"system", "user", "nice", "idle", "irq">>
      [] goos = "darwin"  -> <<"system", "user", "nice", "idle">>
      [] OTHER            -> <<>>

\* The loop over ca.CPUUtilDataGather: every "avg<int>" mode is appended,
\* whatever the integer; a mode that does not parse is logged and skipped.
RECURSIVE ParseDurations(_)
ParseDurations(modes) ==
    IF modes = <<>> THEN <<>>
    ELSE LET d == Head(modes)
             r == Atoi(AfterAvg(d))
         IN  IF HasPrefix(d, avgPrefix) /\ ~r.err
             THEN <<r.v>> \o ParseDurations(Tail(modes))
             ELSE ParseDurations(Tail(modes))

\* A constructor that enables whatever was requested.
KeepAllTypes(types, goos) == types

\* The loop over ca.CPUUtilTypes: a type is kept iff the platform lists it.
RECURSIVE FilterUtilTypes(_, _)
FilterUtilTypes(types, goos) ==
    IF types = <<>> THEN <<>>
    ELSE IF Head(types) \in Range(utilisationMetricsByOS(goos))
         THEN <<Head(types)>> \o FilterUtilTypes(Tail(types), goos)
         ELSE FilterUtilTypes(Tail(types), goos)

\* The messages the loop over ca.CPUUtilTypes logs: one per rejected type.
RECURSIVE UtilTypeLogs(_, _)
UtilTypeLogs(types, goos) ==
    IF types = <<>> THEN <<>>
    ELSE IF Head(types) \in Range(utilisationMetricsByOS(goos))
         THEN UtilTypeLogs(Tail(types), goos)
         ELSE <<Head(types)>> \o UtilTypeLogs(Tail(types), goos)

\* The loop over ca.CPULoadDataGather (taken when load.Avg is implemented).
LoadAvgFlag(modes, n) ==
    \E i \in 1 .. Len(modes) :
        HasPrefix(modes[i], avgPrefix) /\ Atoi(AfterAvg(modes[i])).v = n

(***************************************************************************)
(* The store: TimeSeriesAverage.                                           *)
(***************************************************************************)
\* The oldest entries a bug would keep: nothing is ever dropped.
PruneNothing(series, now, window) == series

\* A loop that lets the head stay one sampling interval longer.
RECURSIVE PruneLate(_, _, _)
PruneLate(series, now, window) ==
    IF series # <<>> /\ now - Head(series).Time > window + measureInterval
    THEN PruneLate(Tail(series), now, window)
    ELSE series

\* The loop of Add: the head is dropped while it is older than the window.
RECURSIVE Prune(_, _, _)
Prune(series, now, window) ==
    IF series # <<>> /\ now - Head(series).Time > window
    THEN Prune(Tail(series), now, window)
    ELSE series

\* Add indexes _DurationInMinutes[len-1] as soon as the series is non-empty.
AddPanics(series, durations) == series # <<>> /\ durations = <<>>

\* A plausible slip: the new entry is put at the head.
AddAtHead(series, durations, t, now, values) ==
    <<[Time |-> t, Values |-> values]>>
        \o (IF series = <<>> THEN <<>>
            ELSE Prune(series, now, minutes(durations[Len(durations)])))

\* TimeSeriesAverage.Add, when it does not panic; now is time.Since's clock.
Add(series, durations, t, now, values) ==
    Append(IF series = <<>> THEN <<>>
           ELSE Prune(series, now, minutes(durations[Len(durations)])),
           [Time |-> t, Values |-> values])

(***************************************************************************)
(* Once: the values built from one reading of the per-core CPU times.      *)
(***************************************************************************)
\* The fields of cpu.TimesStat the switch of Once reads, by utilisation type.
SwitchTypes == {"system", "user", "nice", "idle", "iowait", "irq", "softirq", "steal"}

\* The keys Once divides by the number of cores after the loop.
MeanKeys == {"system", "user", "nice", "idle", "iowait", "interrupt", "softirq", "steal"}

\* "<type>.%d.cpu<i>" and "<type>.%d.total"
CoreKey(utype, i) == [t |-> utype, i |-> i]

TotalKey(utype) == [t |-> utype, i |-> -1]

IsTotalKey(k) == k.i = -1

\* How many times the inner loop of Once visits a type for one core.
Occurrences(types, utype) == Cardinality({j \in 1 .. Len(types) : types[j] = utype})

\* Sum over the cores of one field, in the model's unit (1/NumCores).
RECURSIVE FieldSum(_, _, _)
FieldSum(times, utype, cs) ==
    IF cs = {} THEN 0
    ELSE LET c == CHOOSE x \in cs : TRUE
         IN  times[c][utype] * NumCores + FieldSum(times, utype, cs \ {c})

\* The ValuesMap Once builds from times (one record per core).
OnceValues(times, types) ==
    LET enabled == Range(types) \cap SwitchTypes
        keys    == {CoreKey(u, i) : u \in enabled, i \in DOMAIN times}
                       \cup {TotalKey(u) : u \in enabled \cup MeanKeys}
        total(u) == IF u \in enabled
                    THEN Occurrences(types, u) * FieldSum(times, u, DOMAIN times)
                    ELSE 0
    IN  [k \in keys |->
            IF IsTotalKey(k)
            THEN IF k.t \in MeanKeys
                 THEN total(k.t) \div Cardinality(DOMAIN times)
                 ELSE total(k.t)
            ELSE times[k.i][k.t] * NumCores]

\* A slip that forgets the early return on a failed query.
OnceAfterQueryNoReturn(err) == "add"

\* Once after cpu.TimesWithContext: a failed query returns at once.
OnceAfterQuery(err) == IF err THEN "sleep" ELSE "add"

(***************************************************************************)
(* Percentage and Average.                                                 *)
(***************************************************************************)
\* keyInt := len(tsa.TimeSeries) - int(int64(d)*int64(time.Minute)/int64(measureInterval))
KeyInt(len, d) == len - TruncDiv(d * Minute * Second, measureInterval * Second)

\* Values[key] of a Go map: the zero value when the key is missing.
ValueAt(values, key) == IF key \in DOMAIN values THEN values[key] ELSE 0

\* float64(int64((lastVal-refVal)/secs*10000+0.5)), in ten-thousandths; the
\* values are in 1/NumCores.  Left undefined for secs = 0.
Rate(lastVal, refVal, secs) ==
    TruncDiv(2 * RateScale * (lastVal - refVal) + NumCores * secs,
             2 * NumCores * secs)

\* The marker sum[d][key] = -1, in ten-thousandths.
UnavailableRate == Unavailable * RateScale

\* The inner loop of Percentage indexes tsa.TimeSeries[keyInt] (0-based).
PercentagePanics(series, last, d) ==
    /\ KeyInt(Len(series), d) >= Len(series)
    /\ DOMAIN last.Values # {}

\* A lookback by time: the reference is the oldest snapshot within the window
\* of the latest one.
PercentageWindowByTime(series, last, d) ==
    LET inWin == {i \in 1 .. Len(series) : last.Time - series[i].Time <= minutes(d)}
        first == CHOOSE i \in inWin : \A j \in inWin : i <= j
    IN  [key \in DOMAIN last.Values |->
            IF inWin = {} \/ last.Time = series[first].Time THEN UnavailableRate
            ELSE Rate(last.Values[key], ValueAt(series[first].Values, key),
                      last.Time - series[first].Time)]

\* One iteration of the loop over the windows: sum[d].
PercentageWindow(series, last, d) ==
    LET keyInt == KeyInt(Len(series), d)
    IN  [key \in DOMAIN last.Values |->
            IF keyInt < 0 THEN UnavailableRate
            ELSE LET ref == series[keyInt + 1]
                 IN  Rate(last.Values[key], ValueAt(ref.Values, key),
                          last.Time - ref.Time)]

RECURSIVE Power(_, _)
Power(b, e) == IF e = 0 THEN 1 ELSE b * Power(b, e - 1)

\* Average over the snapshots read at time now.  The loops run over the list
\* _DurationInMinutes: a window listed n times gets each value of a snapshot
\* younger than the window added n times to sum[d][key] and counted n times,
\* and sum[d][key] is then divided by count[d][key] n times.  The quotient is
\* kept as num/den.
Average(series, durations, now) ==
    [d \in Range(durations) |->
        LET n     == Cardinality({j \in 1 .. Len(durations) : durations[j] = d})
            inWin == {i \in 1 .. Len(series) : now - series[i].Time < minutes(d)}
            keys  == UNION {DOMAIN series[i].Values : i \in inWin}
            has(key) == {i \in inWin : key \in DOMAIN series[i].Values}
            RECURSIVE sumOver(_, _)
            sumOver(key, is) ==
                IF is = {} THEN 0
                ELSE LET i == CHOOSE x \in is : TRUE
                     IN  series[i].Values[key] + sumOver(key, is \ {i})
        IN  [key \in keys |->
                [num |-> n * sumOver(key, has(key)),
                 den |-> Power(n * Cardinality(has(key)), n)]]]

(***************************************************************************)
(* Results: the flat map built from Percentage's map and load.Avg.         *)
(***************************************************************************)
UtilName(key, d) == [kind |-> "util", t |-> key.t, d |-> d, i |-> key.i]

LoadName(n) == [kind |-> "load", t |-> "avg", d |-> n, i |-> -1]

Null == [null |-> TRUE, v |-> 0]

Number(x) == [null |-> FALSE, v |-> x]

\* The loop over util: -1 becomes nil, anything else is copied.
UtilResults(util) ==
    LET names == {UtilName(key, d) : d \in DOMAIN util,
                                     key \in UNION {DOMAIN util[x] : x \in DOMAIN util}}
        mine  == {n \in names : CoreKey(n.t, n.i) \in DOMAIN util[n.d]}
    IN  [n \in mine |->
            LET v == util[n.d][CoreKey(n.t, n.i)]
            IN  IF v = UnavailableRate THEN Null ELSE Number(v)]

\* A Results that reports the three load averages whatever is enabled.
LoadResultsAll(flags, loadAvg) ==
    [n \in {LoadName(x) : x \in {1, 5, 15}} |-> Number(loadAvg[n.d])]

\* The entries added after a successful load.Avg.
LoadResults(flags, loadAvg) ==
    LET ns == {n \in {1, 5, 15} : flags[n]}
    IN  [n \in {LoadName(x) : x \in ns} |-> Number(loadAvg[n.d])]

(***************************************************************************)
(* The environment: requested configurations, the platform, the OS.        *)
(***************************************************************************)
Mode(n) == avgPrefix \o <<n>>

\* The configurations the watcher is constructed from.
Configs ==
    { [CPUUtilDataGather |-> <<Mode("1")>>,
       CPUUtilTypes      |-> <<"user">>,
       CPULoadDataGather |-> <<Mode("1")>>,
       GOOS              |-> "linux"],
      [CPUUtilDataGather |-> <<>>,
       CPUUtilTypes      |-> <<>>,
       CPULoadDataGather |-> <<>>,
       GOOS              |-> "linux"],
      [CPUUtilDataGather |-> <<Mode("1"), Mode("0")>>,
       CPUUtilTypes      |-> <<"user">>,
       CPULoadDataGather |-> <<>>,
       GOOS              |-> "linux"] }

\* The cumulative per-core counters of the OS when the process starts.
FieldBase(f) ==
    CASE f = "system" -> 10 [] f = "user" -> 20 [] f = "nice" -> 30
      [] f = "idle" -> 40 [] f = "iowait" -> 50 [] f = "irq" -> 60
      [] f = "softirq" -> 70 [] f = "steal" -> 80

InitTimes == [c \in Cores |-> [f \in SwitchTypes |-> FieldBase(f) + c]]

\* The counters after each core's fields moved by inc[c] seconds.
Advance(times, inc) ==
    [c \in DOMAIN times |-> [f \in SwitchTypes |-> times[c][f] + inc[c]]]

\* What the counters may move by between two readings.
SteadyIncs == {[c \in Cores |-> 1]}

\* How long a successful and a failed cpu.TimesWithContext may take.
FastQuery == {0}

FailDurations == {0, cpuGetUtilisationTimeout}

\* What load.Avg may report.
LoadAvgs == {[n \in {1, 5, 15} |-> n]}

(***************************************************************************)
(* State.                                                                  *)
(***************************************************************************)
VARIABLES
    cfg,                \* the Cagent configuration the watcher was built from
    UtilTypes,          \* CPUWatcher.UtilTypes
    LoadAvg,            \* CPUWatcher.LoadAvg1 / LoadAvg5 / LoadAvg15
    ctorLog,            \* the types the constructor logged as not implemented
    DurationInMinutes,  \* TimeSeriesAverage._DurationInMinutes
    TimeSeries,         \* TimeSeriesAverage.TimeSeries
    mu,                 \* TimeSeriesAverage.mu: Free, or who locked it
    clock,              \* the wall clock, in seconds
    osTimes,            \* the OS's cumulative per-core CPU times
    crashed,            \* a goroutine panicked: the process is gone
    runPC,              \* where the Run goroutine is
    runValues,          \* Once's local values
    queryFailed,        \* whether the query of the current Once failed
    onceErr,            \* what the last Once returned: "none", "ok", "err"
    onceEntry,          \* the series when the current Once was entered
    appended,           \* the timestamps of every snapshot ever added
    lastAddNow,         \* the clock of the last Add
    resPC,              \* where each Results caller is
    percLast,           \* Percentage's local last
    percIdx,            \* Percentage's position in _DurationInMinutes
    percSum,            \* Percentage's local sum
    percSeen,           \* the series when Percentage read last
    util,               \* what Percentage returned to Results
    loadRet,            \* what load.Avg returned to Results
    results,            \* what Results returned
    avgPC,              \* where the Average caller is
    avgRes              \* what Average returned

storeVars == <<TimeSeries, appended, lastAddNow>>
cfgVars == <<cfg, UtilTypes, LoadAvg, ctorLog, DurationInMinutes>>
runVars == <<runPC, runValues, queryFailed, onceErr, onceEntry, osTimes>>
resVars == <<resPC, percLast, percIdx, percSum, percSeen, util, loadRet, results>>
avgVars == <<avgPC, avgRes>>
vars == <<cfgVars, storeVars, mu, clock, crashed, runVars, resVars, avgVars>>

\* The states of the mutex.
Free == <<"free", 0>>
ByRun == <<"run", 0>>
ByCaller(c) == <<"caller", c>>

NoSnapshot == [Time |-> 0, Values |-> <<>>]
NoUtil == [nil |-> TRUE, m |-> <<>>, err |-> FALSE]
NoResults == [m |-> <<>>, errs |-> <<>>]
NoLoad == [asked |-> FALSE, ok |-> FALSE, avg |-> <<>>]

\* Cagent.CPUWatcher: the fields of the watcher it returns.
CPUWatcherDurations(c) == SetDurationsMinutes(ParseDurations(c.CPUUtilDataGather))

CPUWatcherUtilTypes(c) == FilterUtilTypes(c.CPUUtilTypes, c.GOOS)

CPUWatcherLoadAvg(c) == [n \in {1, 5, 15} |-> LoadAvgFlag(c.CPULoadDataGather, n)]

CPUWatcherLog(c) == UtilTypeLogs(c.CPUUtilTypes, c.GOOS)

\* The process once the watcher is constructed from configuration c.
Start(c) ==
    /\ cfg = c
    /\ UtilTypes = CPUWatcherUtilTypes(c)
    /\ LoadAvg = CPUWatcherLoadAvg(c)
    /\ ctorLog = CPUWatcherLog(c)
    /\ DurationInMinutes = CPUWatcherDurations(c)
    /\ TimeSeries = <<>>
    /\ appended = {}
    /\ lastAddNow = 0
    /\ mu = Free
    /\ clock = 0
    /\ osTimes = InitTimes
    /\ crashed = FALSE
    /\ runPC = "once"
    /\ runValues = <<>>
    /\ queryFailed = FALSE
    /\ onceErr = "none"
    /\ onceEntry = <<>>
    /\ resPC = [r \in Callers |-> "idle"]
    /\ percLast = [r \in Callers |-> NoSnapshot]
    /\ percIdx = [r \in Callers |-> 0]
    /\ percSum = [r \in Callers |-> <<>>]
    /\ percSeen = [r \in Callers |-> <<>>]
    /\ util = [r \in Callers |-> NoUtil]
    /\ loadRet = [r \in Callers |-> NoLoad]
    /\ results = [r \in Callers |-> NoResults]
    /\ avgPC = "idle"
    /\ avgRes = <<>>

Init == \E c \in Configs : Start(c)

(***************************************************************************)
(* The Run goroutine: for { Once(); Sleep(measureInterval) }.              *)
(***************************************************************************)
\* Once: stat.UtilAvg.mu.Lock()
OnceLock ==
    /\ ~crashed
    /\ runPC = "once"
    /\ mu = Free
    /\ mu' = ByRun
    /\ runPC' = "query"
    /\ queryFailed' = FALSE
    /\ onceEntry' = TimeSeries
    /\ UNCHANGED <<cfgVars, storeVars, clock, crashed, runValues, onceErr, osTimes,
                   resVars, avgVars>>

\* Once: cpu.TimesWithContext succeeds after q seconds, the counters having
\* moved by inc; the values are built.
OnceQuery(q, inc) ==
    /\ ~crashed
    /\ runPC = "query"
    /\ clock' = clock + q
    /\ osTimes' = Advance(osTimes, inc)
    /\ runValues' = OnceValues(osTimes', UtilTypes)
    /\ runPC' = OnceAfterQuery(FALSE)
    /\ UNCHANGED <<cfgVars, storeVars, mu, crashed, queryFailed, onceErr, onceEntry,
                   resVars, avgVars>>

\* Once: cpu.TimesWithContext fails after q seconds; Once returns the error,
\* the mutex still locked.
OnceQueryFail(q) ==
    /\ ~crashed
    /\ runPC = "query"
    /\ clock' = clock + q
    /\ queryFailed' = TRUE
    /\ runPC' = OnceAfterQuery(TRUE)
    /\ onceErr' = IF runPC' = "sleep" THEN "err" ELSE onceErr
    /\ runValues' = <<>>
    /\ UNCHANGED <<cfgVars, storeVars, mu, crashed, onceEntry, osTimes,
                   resVars, avgVars>>

\* Once: stat.UtilAvg.Add(time.Now(), values); mu.Unlock(); return nil
OnceAdd ==
    /\ ~crashed
    /\ runPC = "add"
    /\ IF AddPanics(TimeSeries, DurationInMinutes)
       THEN /\ crashed' = TRUE
            /\ runPC' = "panic"
            /\ UNCHANGED <<storeVars, mu, onceErr>>
       ELSE /\ TimeSeries' = Add(TimeSeries, DurationInMinutes, clock, clock, runValues)
            /\ appended' = appended \cup {clock}
            /\ lastAddNow' = clock
            /\ mu' = Free
            /\ runPC' = "sleep"
            /\ onceErr' = "ok"
            /\ UNCHANGED crashed
    /\ UNCHANGED <<cfgVars, clock, runValues, queryFailed, onceEntry, osTimes,
                   resVars, avgVars>>

\* Run: the error, if any, is logged; time.Sleep(measureInterval)
RunSleep ==
    /\ ~crashed
    /\ runPC = "sleep"
    /\ clock + measureInterval <= MaxClock
    /\ clock' = clock + measureInterval
    /\ runPC' = "once"
    /\ UNCHANGED <<cfgVars, storeVars, mu, crashed, runValues, queryFailed, onceErr,
                   onceEntry, osTimes, resVars, avgVars>>

(***************************************************************************)
(* Results callers.                                                        *)
(***************************************************************************)
\* A reader that forgets the mutex.
PercentageNoLock(m) == TRUE

\* A reader that prunes what has left the largest window.
SeriesPrunedAtRead(series, durations, now) ==
    IF series = <<>> \/ durations = <<>> THEN series
    ELSE Prune(series, now, minutes(durations[Len(durations)]))

\* Percentage never assigns tsa.TimeSeries: the series after the call.
SeriesAfterRead(series, durations, now) == series

\* Percentage: tsa.mu.Lock() returns once the mutex is free.
PercentageMayLock(m) == m = Free

\* Results is called and reaches Percentage's tsa.mu.Lock().
ResultsCall(c) ==
    /\ ~crashed
    /\ resPC[c] = "idle"
    /\ resPC' = [resPC EXCEPT ![c] = "lock"]
    /\ UNCHANGED <<cfgVars, storeVars, mu, clock, crashed, runVars, percLast, percIdx,
                   percSum, percSeen, util, loadRet, results, avgVars>>

PercLock(c) ==
    /\ ~crashed
    /\ resPC[c] = "lock"
    /\ PercentageMayLock(mu)
    /\ mu' = ByCaller(c)
    /\ resPC' = [resPC EXCEPT ![c] = "read"]
    /\ UNCHANGED <<cfgVars, storeVars, clock, crashed, runVars, percLast, percIdx,
                   percSum, percSeen, util, loadRet, results, avgVars>>

\* Percentage: the empty store is an error; otherwise last is read.
PercRead(c) ==
    /\ ~crashed
    /\ resPC[c] = "read"
    /\ IF Len(TimeSeries) = 0
       THEN /\ util' = [util EXCEPT ![c] = [nil |-> TRUE, m |-> <<>>, err |-> TRUE]]
            /\ mu' = Free
            /\ resPC' = [resPC EXCEPT ![c] = "load"]
            /\ UNCHANGED <<percLast, percIdx, percSum, percSeen>>
       ELSE /\ percLast' = [percLast EXCEPT ![c] = TimeSeries[Len(TimeSeries)]]
            /\ percIdx' = [percIdx EXCEPT ![c] = 1]
            /\ percSum' = [percSum EXCEPT ![c] = <<>>]
            /\ percSeen' = [percSeen EXCEPT ![c] = TimeSeries]
            /\ resPC' = [resPC EXCEPT ![c] = "window"]
            /\ UNCHANGED <<util, mu>>
    /\ TimeSeries' = SeriesAfterRead(TimeSeries, DurationInMinutes, clock)
    /\ UNCHANGED <<cfgVars, appended, lastAddNow, clock, crashed, runVars, loadRet,
                   results, avgVars>>

\* Percentage: one iteration of the loop over _DurationInMinutes, or, after
\* the last one, return sum, nil (the deferred Unlock runs on every exit).
PercWindow(c) ==
    /\ ~crashed
    /\ resPC[c] = "window"
    /\ IF percIdx[c] > Len(DurationInMinutes)
       THEN /\ util' = [util EXCEPT ![c] = [nil |-> FALSE, m |-> percSum[c], err |-> FALSE]]
            /\ mu' = Free
            /\ resPC' = [resPC EXCEPT ![c] = "load"]
            /\ UNCHANGED <<percIdx, percSum, crashed>>
       ELSE LET d == DurationInMinutes[percIdx[c]]
            IN  IF PercentagePanics(TimeSeries, percLast[c], d)
                THEN /\ crashed' = TRUE
                     /\ mu' = Free
                     /\ resPC' = [resPC EXCEPT ![c] = "panic"]
                     /\ UNCHANGED <<percIdx, percSum, util>>
                ELSE /\ percSum' = [percSum EXCEPT ![c] =
                            (d :> PercentageWindow(TimeSeries, percLast[c], d)) @@ @]
                     /\ percIdx' = [percIdx EXCEPT ![c] = @ + 1]
                     /\ UNCHANGED <<util, mu, resPC, crashed>>
    /\ UNCHANGED <<cfgVars, storeVars, clock, runVars, percLast, percSeen, loadRet,
                   results, avgVars>>

\* Results after Percentage: the flat map, the load averages, the errors.
ResultsFinish(c, loadOK, loadAvg) ==
    /\ ~crashed
    /\ resPC[c] = "load"
    /\ LET needLoad == LoadAvg[1] \/ LoadAvg[5] \/ LoadAvg[15]
           errs == (IF util[c].err THEN <<"CPU metrics are not collected yet">> ELSE <<>>)
                   \o (IF needLoad /\ ~loadOK THEN <<"load.Avg">> ELSE <<>>)
           m == UtilResults(util[c].m)
                @@ (IF needLoad /\ loadOK THEN LoadResults(LoadAvg, loadAvg) ELSE <<>>)
       IN  /\ results' = [results EXCEPT ![c] = [m |-> m, errs |-> errs]]
           /\ loadRet' = [loadRet EXCEPT ![c] =
                  IF needLoad THEN [asked |-> TRUE, ok |-> loadOK,
                                    avg |-> IF loadOK THEN loadAvg ELSE <<>>]
                  ELSE NoLoad]
    /\ resPC' = [resPC EXCEPT ![c] = "done"]
    /\ UNCHANGED <<cfgVars, storeVars, mu, clock, crashed, runVars, percLast, percIdx,
                   percSum, percSeen, util, avgVars>>

\* The caller has its answer and may call again.
ResultsReturn(c) ==
    /\ ~crashed
    /\ resPC[c] = "done"
    /\ resPC' = [resPC EXCEPT ![c] = "idle"]
    /\ percLast' = [percLast EXCEPT ![c] = NoSnapshot]
    /\ percIdx' = [percIdx EXCEPT ![c] = 0]
    /\ percSum' = [percSum EXCEPT ![c] = <<>>]
    /\ percSeen' = [percSeen EXCEPT ![c] = <<>>]
    /\ util' = [util EXCEPT ![c] = NoUtil]
    /\ loadRet' = [loadRet EXCEPT ![c] = NoLoad]
    /\ results' = [results EXCEPT ![c] = NoResults]
    /\ UNCHANGED <<cfgVars, storeVars, mu, clock, crashed, runVars, avgVars>>

(***************************************************************************)
(* An Average caller.  Average takes no lock: between its entry and its    *)
(* return it ranges over the series as it is at one moment of the call.    *)
(***************************************************************************)
AvgEnter ==
    /\ ~crashed
    /\ avgPC = "idle"
    /\ avgPC' = "in"
    /\ UNCHANGED <<cfgVars, storeVars, mu, clock, crashed, runVars, resVars, avgRes>>

AvgReturn ==
    /\ ~crashed
    /\ avgPC = "in"
    /\ avgRes' = Average(TimeSeries, DurationInMinutes, clock)
    /\ avgPC' = "done"
    /\ UNCHANGED <<cfgVars, storeVars, mu, clock, crashed, runVars, resVars>>

AvgReset ==
    /\ ~crashed
    /\ avgPC = "done"
    /\ avgPC' = "idle"
    /\ avgRes' = <<>>
    /\ UNCHANGED <<cfgVars, storeVars, mu, clock, crashed, runVars, resVars>>

(***************************************************************************)
(* The watcher with its callers, on a machine whose counters advance       *)
(* steadily and whose queries are fast or fail.                            *)
(***************************************************************************)
RunStep ==
    \/ OnceLock
    \/ \E q \in FastQuery, inc \in SteadyIncs : OnceQuery(q, inc)
    \/ \E q \in FailDurations : OnceQueryFail(q)
    \/ OnceAdd
    \/ RunSleep

\* One step of a Results call of caller c.
ResultsStep(c) ==
    \/ ResultsCall(c)
    \/ PercLock(c)
    \/ PercRead(c)
    \/ PercWindow(c)
    \/ \E loadOK \in BOOLEAN, loadAvg \in LoadAvgs : ResultsFinish(c, loadOK, loadAvg)
    \/ ResultsReturn(c)

CallerStep == \E c \in Callers : ResultsStep(c)

AverageStep == AvgEnter \/ AvgReturn \/ AvgReset

\* A returned value is looked at in the instant it is returned: "done" is the
\* moment of the return, and the watcher moves on once it has passed.
Returning == avgPC = "done" \/ \E c \in Callers : resPC[c] = "done"

Next == (~Returning /\ RunStep) \/ CallerStep \/ AverageStep

Spec == Init /\ [][Next]_vars

(***************************************************************************)
(* The sampling loop alone, on a machine whose queries take a varying time,*)
(* so that the samples are unevenly spaced and one Add may drop several    *)
(* snapshots.                                                              *)
(***************************************************************************)
JitterQuery == {0, 4}

StoreNext ==
    \/ OnceLock
    \/ \E q \in JitterQuery, inc \in SteadyIncs : OnceQuery(q, inc)
    \/ \E q \in FailDurations : OnceQueryFail(q)
    \/ OnceAdd
    \/ RunSleep

SpecStore == Init /\ [][StoreNext]_vars

(***************************************************************************)
(* The watcher used in turns: Run takes its steps while no Results call is *)
(* under way, and a Results call runs from its call to its return between  *)
(* two steps of Run.  The configurations include types the platform does   *)
(* not implement, the type irq, several load-average windows, and modes    *)
(* that parse to a negative number or do not parse.                        *)
(***************************************************************************)
WideConfigs ==
    Configs \cup
    { [CPUUtilDataGather |-> <<Mode("1")>>,
       CPUUtilTypes      |-> <<"steal", "irq", "user">>,
       CPULoadDataGather |-> <<Mode("1"), Mode("1") \o <<"5">>>>,
       GOOS              |-> "linux"],
      [CPUUtilDataGather |-> <<Mode("1")>>,
       CPUUtilTypes      |-> <<"user", "iowait", "idle">>,
       CPULoadDataGather |-> <<Mode("5")>>,
       GOOS              |-> "darwin"],
      [CPUUtilDataGather |-> <<avgPrefix \o <<"-", "5">>, Mode("x")>>,
       CPUUtilTypes      |-> <<"user">>,
       CPULoadDataGather |-> <<>>,
       GOOS              |-> "linux"] }

InitUse == \E c \in WideConfigs : Start(c)

\* No Results call is under way.
AllIdle == \A c \in Callers : resPC[c] = "idle"

\* Caller c is the only one with a Results call under way, if any.
OnlyCaller(c) == \A o \in Callers \ {c} : resPC[o] = "idle"

UseNext ==
    \/ AllIdle /\ RunStep
    \/ \E c \in Callers :
          OnlyCaller(c) /\ runPC \in {"once", "sleep"} /\ ResultsStep(c)

SpecUse == InitUse /\ [][UseNext]_vars

(***************************************************************************)
(* The store used directly: a program that calls TimeSeriesAverage.Add     *)
(* itself, with timestamps and values of its choice, and reads the store   *)
(* through Results between two calls.  Run is not started.                 *)
(***************************************************************************)
\* The key the direct caller stores a value under.
DirectKey == TotalKey("user")

\* How far the time and the value of a snapshot are from the one before:
\* dt seconds and dv units.
AddSteps == {[dt |-> 5, dv |-> 2], [dt |-> 10, dv |-> 10], [dt |-> 60, dv |-> 30]}

\* tsa.Add(time.Now(), values), s.dt seconds after the call before.
DirectAdd(s) ==
    /\ ~crashed
    /\ clock + s.dt <= MaxClock
    /\ clock' = clock + s.dt
    /\ IF AddPanics(TimeSeries, DurationInMinutes)
       THEN /\ crashed' = TRUE
            /\ UNCHANGED storeVars
       ELSE LET prev   == IF TimeSeries = <<>> THEN 0
                          ELSE ValueAt(TimeSeries[Len(TimeSeries)].Values, DirectKey)
                values == (DirectKey :> prev + s.dv * NumCores)
            IN  /\ TimeSeries' = Add(TimeSeries, DurationInMinutes, clock', clock', values)
                /\ appended' = appended \cup {clock'}
                /\ lastAddNow' = clock'
                /\ UNCHANGED crashed
    /\ UNCHANGED <<cfgVars, mu, runVars, resVars, avgVars>>

AddNext ==
    \/ AllIdle /\ \E s \in AddSteps : DirectAdd(s)
    \/ \E c \in Callers : OnlyCaller(c) /\ ResultsStep(c)

SpecAdd == Init /\ [][AddNext]_vars

(***************************************************************************)
(* The watcher on a machine whose queries take a varying time, with Results*)
(* calls between the steps of Run.                                         *)
(***************************************************************************)
SlowNext ==
    \/ AllIdle /\ StoreNext
    \/ \E c \in Callers :
          OnlyCaller(c) /\ runPC \in {"once", "sleep"} /\ ResultsStep(c)

SpecSlow == Init /\ [][SlowNext]_vars

(***************************************************************************)
(* The store used directly and read through Average: the snapshots are     *)
(* further apart, do not all carry the same keys, and a window may be      *)
(* listed twice in the configuration.                                      *)
(***************************************************************************)
AvgConfigs ==
    Configs \cup
    { [CPUUtilDataGather |-> <<Mode("1"), Mode("1")>>,
       CPUUtilTypes      |-> <<"user">>,
       CPULoadDataGather |-> <<>>,
       GOOS              |-> "linux"],
      [CPUUtilDataGather |-> <<Mode("5"), Mode("1")>>,
       CPUUtilTypes      |-> <<"user">>,
       CPULoadDataGather |-> <<>>,
       GOOS              |-> "linux"] }

InitAvg == \E c \in AvgConfigs : Start(c)

\* A second key, which not every snapshot carries.
OtherKey == TotalKey("idle")

KeySets == {{DirectKey}, {OtherKey}, {DirectKey, OtherKey}}

AvgSteps == {[dt |-> 10, dv |-> 3], [dt |-> 20, dv |-> 10], [dt |-> 40, dv |-> 30]}

\* The value last stored under key, 0 if none was.
RECURSIVE LastValue(_, _)
LastValue(series, key) ==
    IF series = <<>> THEN 0
    ELSE IF key \in DOMAIN series[Len(series)].Values
         THEN series[Len(series)].Values[key]
         ELSE LastValue(SubSeq(series, 1, Len(series) - 1), key)

\* tsa.Add(time.Now(), values) with values for the keys ks only.
DirectAddKeys(s, ks) ==
    /\ ~crashed
    /\ clock + s.dt <= MaxClock
    /\ clock' = clock + s.dt
    /\ IF AddPanics(TimeSeries, DurationInMinutes)
       THEN /\ crashed' = TRUE
            /\ UNCHANGED storeVars
       ELSE LET values == [k \in ks |-> LastValue(TimeSeries, k) + s.dv * NumCores]
            IN  /\ TimeSeries' = Add(TimeSeries, DurationInMinutes, clock', clock', values)
                /\ appended' = appended \cup {clock'}
                /\ lastAddNow' = clock'
                /\ UNCHANGED crashed
    /\ UNCHANGED <<cfgVars, mu, runVars, resVars, avgVars>>

AvgNext ==
    \/ avgPC = "idle" /\ \E s \in AvgSteps, ks \in KeySets : DirectAddKeys(s, ks)
    \/ AverageStep

SpecAvg == InitAvg /\ [][AvgNext]_vars

(***************************************************************************)
(* The store fed from a recording: a program that calls Add with the       *)
(* timestamps of the recording, which lie ReplayGap seconds apart from the *)
(* time of the first call on, and with a counter that goes down from one   *)
(* snapshot to the next; it reads the store through Results in between.    *)
(***************************************************************************)
ReplayGap == 1000

\* By how much the stored value (in 1/NumCores) changes per snapshot: by
\* 1.0 per second, or by a little more.
ReplaySteps == {-ReplayGap * NumCores, -ReplayGap * NumCores - 1}

\* The snapshots of the recording: what window 1 needs.
ReplayLen == (Minute * Second) \div (measureInterval * Second)

\* The counter's value in the first snapshot.
ReplayStart == 40 * ReplayGap * NumCores

\* tsa.Add(t, values), t being the next timestamp of the recording; the
\* recording has one window's worth of snapshots.
ReplayAdd(dv) ==
    /\ ~crashed
    /\ Cardinality(appended) < ReplayLen
    /\ clock + Second <= MaxClock
    /\ clock' = clock + Second
    /\ IF AddPanics(TimeSeries, DurationInMinutes)
       THEN /\ crashed' = TRUE
            /\ UNCHANGED storeVars
       ELSE LET t      == IF appended = {} THEN clock'
                          ELSE SetMax(appended) + ReplayGap
                values == (DirectKey :>
                              IF TimeSeries = <<>> THEN ReplayStart
                              ELSE ValueAt(TimeSeries[Len(TimeSeries)].Values,
                                           DirectKey) + dv)
            IN  /\ TimeSeries' = Add(TimeSeries, DurationInMinutes, t, clock', values)
                /\ appended' = appended \cup {t}
                /\ lastAddNow' = clock'
                /\ UNCHANGED crashed
    /\ UNCHANGED <<cfgVars, mu, runVars, resVars, avgVars>>

ReplayNext ==
    \/ AllIdle /\ \E dv \in ReplaySteps : ReplayAdd(dv)
    \/ \E c \in Callers : OnlyCaller(c) /\ ResultsStep(c)

SpecReplay == Init /\ [][ReplayNext]_vars

(***************************************************************************)
(* Vocabulary of the properties.                                           *)
(***************************************************************************)
\* The windows as they were passed to SetDurationsMinutes, in that order.
PassedWindows == ParseDurations(cfg.CPUUtilDataGather)

LargestWindow == SetMax(Range(PassedWindows))

\* Samples per minute of window: 60 s / 5 s.
SamplesPerMinute == Minute \div measureInterval

StrictlyIncreasing(series) ==
    \A i \in 1 .. Len(series) - 1 : series[i].Time < series[i + 1].Time

\* The timestamps a series holds.
Times(series) == {series[i].Time : i \in 1 .. Len(series)}

\* Who is inside the series.
WriterInside == runPC = "add"

ReaderInside(c) == resPC[c] \in {"read", "window"}

AverageInside == avgPC = "in"

\* Percentage has ended for caller c: it returned, or it panicked.
PercentageEnded(c) == resPC[c] \in {"load", "panic"}

\* n/d rounded half-up to an integer (d > 0).
HalfUp(n, d) == FloorDiv(2 * n + d, 2 * d)

(***************************************************************************)
(* C1.  After a failed sample the Run loop reaches its next iteration: when*)
(* Run is about to call Once again after a Once that returned an error, and*)
(* no Results caller holds the mutex, Once can take the mutex and go on.   *)
(* The code returns from the failed Once with the mutex locked, so this    *)
(* fails.                                                                  *)
(***************************************************************************)
C1_FailedSampleDoesNotStopSampling ==
    (/\ ~crashed
     /\ runPC = "once"
     /\ onceErr = "err"
     /\ \A c \in Callers : mu # ByCaller(c))
        => ENABLED OnceLock

(***************************************************************************)
(* C2.  A Once whose query failed has returned an error and has left the   *)
(* series exactly as it was when Once was entered.                         *)
(***************************************************************************)
C2_FailedOnceLeavesStore ==
    (queryFailed /\ runPC \in {"sleep", "once"})
        => (onceErr = "err" /\ TimeSeries = onceEntry)

\* A failed Once at a moment when an Add would have pruned the head.
C2_Witness ==
    /\ queryFailed
    /\ runPC = "sleep"
    /\ onceErr = "err"
    /\ TimeSeries # <<>>
    /\ DurationInMinutes # <<>>
    /\ clock - TimeSeries[1].Time > minutes(DurationInMinutes[Len(DurationInMinutes)])

(***************************************************************************)
(* C3.  Whoever is inside the series holds the mutex, so the writer and a  *)
(* reader are never inside together.  Average takes no lock, so this fails.*)
(***************************************************************************)
C3_SeriesAccessHoldsMutex ==
    /\ WriterInside => mu = ByRun
    /\ \A c \in Callers : ReaderInside(c) => mu = ByCaller(c)
    /\ AverageInside => mu = <<"average", 0>>
    /\ ~(WriterInside /\ (AverageInside \/ \E c \in Callers : ReaderInside(c)))

(***************************************************************************)
(* C4.  While Percentage loops over the windows, the series is the one it  *)
(* read the latest snapshot from: no Add takes effect in between.          *)
(***************************************************************************)
C4_PercentageSeesOneSeries ==
    \A c \in Callers : resPC[c] = "window" => TimeSeries = percSeen[c]

\* Percentage is in its loop, with references to read, while Run waits at
\* the mutex for its next sample.
C4_Witness ==
    \E c \in Callers :
        /\ resPC[c] = "window"
        /\ percIdx[c] <= Len(DurationInMinutes)
        /\ Len(TimeSeries) >= SamplesPerMinute
        /\ runPC = "once"

(***************************************************************************)
(* C5.  After each Add, every snapshot that was in the store before the    *)
(* call and is still there is no older, at the time of the Add, than the   *)
(* largest window passed to SetDurationsMinutes, in whatever order.        *)
(***************************************************************************)
C5_RemainingWithinLargestWindow ==
    \A i \in 1 .. Len(TimeSeries) - 1 :
        lastAddNow - TimeSeries[i].Time <= minutes(LargestWindow)

\* Add has pruned, the largest window having been passed first.
C5_Witness ==
    /\ Len(PassedWindows) > 1
    /\ PassedWindows[1] = LargestWindow
    /\ PassedWindows[1] > PassedWindows[Len(PassedWindows)]
    /\ Len(TimeSeries) > 1
    /\ Cardinality(appended) > Len(TimeSeries)

(***************************************************************************)
(* C6.  The store holds every snapshot ever added whose timestamp is       *)
(* within the largest window of the time of the last Add.                  *)
(***************************************************************************)
C6_RetainsWithinLargestWindow ==
    PassedWindows # <<>> =>
        \A t \in appended :
            lastAddNow - t <= minutes(LargestWindow) => t \in Times(TimeSeries)

\* Add has dropped the snapshots that left the window and kept a full window.
C6_Witness ==
    /\ Cardinality(appended) > Len(TimeSeries)
    /\ Len(TimeSeries) > SamplesPerMinute
    /\ clock - TimeSeries[1].Time = minutes(LargestWindow)

(***************************************************************************)
(* C7.  Run being the only caller of Add, the series is always in strictly *)
(* increasing time order, and a Once changes it only by dropping a prefix  *)
(* and appending one snapshot.                                             *)
(***************************************************************************)
C7_OrderedPrefixDropAppend ==
    /\ StrictlyIncreasing(TimeSeries)
    /\ \/ TimeSeries = onceEntry
       \/ /\ TimeSeries # <<>>
          /\ \E k \in 0 .. Len(onceEntry) :
                SubSeq(TimeSeries, 1, Len(TimeSeries) - 1)
                    = SubSeq(onceEntry, k + 1, Len(onceEntry))

\* An Add that dropped a prefix of several snapshots and appended one.
C7_Witness ==
    /\ runPC = "sleep"
    /\ onceErr = "ok"
    /\ TimeSeries # onceEntry
    /\ Len(TimeSeries) < Len(onceEntry)
    /\ Len(TimeSeries) > 1

(***************************************************************************)
(* C8.  Percentage on an empty store returns the error and no map; on a    *)
(* non-empty store it returns a map and no error.  With a stored window    *)
(* <= 0 it panics on a non-empty store, so this fails.                     *)
(***************************************************************************)
C8_ErrorIffEmptyStore ==
    \A c \in Callers :
        PercentageEnded(c) =>
            IF percSeen[c] = <<>>
            THEN resPC[c] = "load" /\ util[c].err /\ util[c].nil
            ELSE resPC[c] = "load" /\ ~util[c].err /\ ~util[c].nil

(***************************************************************************)
(* C9.  On a non-empty store, for a configured window d with fewer than    *)
(* 12*d snapshots held, Percentage returns no error and the marker -1 for  *)
(* every key of the latest snapshot under d.  It panics first when a       *)
(* window <= 0 is stored with d, so this fails.                            *)
(***************************************************************************)
C9_ShortHistoryGivesMarker ==
    \A c \in Callers :
        (PercentageEnded(c) /\ percSeen[c] # <<>>) =>
            \A d \in Range(DurationInMinutes) :
                Len(percSeen[c]) < SamplesPerMinute * d =>
                    /\ resPC[c] = "load"
                    /\ ~util[c].err
                    /\ d \in DOMAIN util[c].m
                    /\ \A key \in DOMAIN percLast[c].Values :
                           /\ key \in DOMAIN util[c].m[d]
                           /\ util[c].m[d][key] = UnavailableRate

(***************************************************************************)
(* C10.  On a non-empty store Percentage returns one entry per configured  *)
(* window and per key of the latest snapshot, and for every window d with  *)
(* len - 12*d >= 0 the entry is (latest - reference) / seconds rounded     *)
(* half-up to 4 decimals, the reference being the snapshot at index        *)
(* len - 12*d.  For d <= 0 that index is not in the series and the code    *)
(* panics, so this fails.                                                  *)
(***************************************************************************)
C10_RateOfEveryAvailableWindow ==
    \A c \in Callers :
        (PercentageEnded(c) /\ percSeen[c] # <<>>) =>
            LET series == percSeen[c]
                last   == percLast[c]
            IN  /\ resPC[c] = "load"
                /\ DOMAIN util[c].m = Range(DurationInMinutes)
                /\ \A d \in Range(DurationInMinutes) :
                       /\ DOMAIN util[c].m[d] = DOMAIN last.Values
                       /\ LET k == Len(series) - SamplesPerMinute * d
                          IN  k >= 0 =>
                                /\ k < Len(series)
                                /\ \A key \in DOMAIN last.Values :
                                       util[c].m[d][key] =
                                           HalfUp(RateScale * (last.Values[key]
                                                    - ValueAt(series[k + 1].Values, key)),
                                                  NumCores * (last.Time - series[k + 1].Time))

(***************************************************************************)
(* C11.  As stated: when Percentage returns from a store of two snapshots  *)
(* 60 s apart whose value for a key went up by 30.0, every configured      *)
(* window of at least 60 s has the rate 0.5000 for that key.  Percentage   *)
(* looks 12*d snapshots back, not 60*d seconds, so with two snapshots it   *)
(* returns the marker -1 and this fails.                                   *)
(***************************************************************************)
\* 0.5000 in ten-thousandths.
HalfRate == RateScale \div 2

FifthRate == RateScale \div 5

\* Each core's value of type u goes up by 1.0 from each snapshot to the next.
GrowsByOne(series, u) ==
    \A i \in 1 .. Len(series) - 1 :
        \A core \in Cores :
            /\ CoreKey(u, core) \in DOMAIN series[i].Values
            /\ CoreKey(u, core) \in DOMAIN series[i + 1].Values
            /\ series[i + 1].Values[CoreKey(u, core)]
                   - series[i].Values[CoreKey(u, core)] = 1 * NumCores

EvenlySpaced(series) ==
    \A i \in 1 .. Len(series) - 1 :
        series[i + 1].Time - series[i].Time = measureInterval

C12_TwelveSamplesGiveFifth ==
    \A c \in Callers :
        (/\ resPC[c] = "done"
         /\ PassedWindows = <<1>>
         /\ Len(percSeen[c]) = SamplesPerMinute
         /\ Cardinality(appended) = SamplesPerMinute
         /\ EvenlySpaced(percSeen[c]))
            => \A u \in Range(UtilTypes) :
                   GrowsByOne(percSeen[c], u) =>
                       /\ UtilName(TotalKey(u), 1) \in DOMAIN results[c].m
                       /\ results[c].m[UtilName(TotalKey(u), 1)] = Number(FifthRate)

(***************************************************************************)
(* C13.  A watcher built with no utilisation window, no utilisation type   *)
(* and no load-average window never crashes, and what Results returns from *)
(* it has no entry and no error.  The second Once panics in Add, which     *)
(* indexes the last of no durations, so this fails.                        *)
(***************************************************************************)
NothingEnabled ==
    /\ cfg.CPUUtilDataGather = <<>>
    /\ cfg.CPUUtilTypes = <<>>
    /\ cfg.CPULoadDataGather = <<>>

C13_NothingEnabledIsValid ==
    NothingEnabled =>
        /\ ~crashed
        /\ \A c \in Callers :
               (resPC[c] = "done" /\ percSeen[c] # <<>>) =>
                   (results[c].m = <<>> /\ results[c].errs = <<>>)

(***************************************************************************)
(* C14.  The enabled types are the requested types the platform's table    *)
(* lists, in the requested order; a requested type the table does not list *)
(* is not enabled and, requested once, is logged exactly once; no listed   *)
(* type is logged.                                                         *)
(***************************************************************************)
Listed(t) ==
    \E i \in 1 .. Len(utilisationMetricsByOS(cfg.GOOS)) :
        utilisationMetricsByOS(cfg.GOOS)[i] = t

C14_UnsupportedTypeDropped ==
    /\ \A t \in Range(cfg.CPUUtilTypes) :
           ~Listed(t) =>
               /\ t \notin Range(UtilTypes)
               /\ Occurrences(cfg.CPUUtilTypes, t) = 1 =>
                      Cardinality({i \in 1 .. Len(ctorLog) : ctorLog[i] = t}) = 1
    /\ \A i \in 1 .. Len(ctorLog) : ~Listed(ctorLog[i])
    /\ UtilTypes = SelectSeq(cfg.CPUUtilTypes, Listed)

\* A watcher at work that was asked for a type its platform does not list,
\* ahead of a type it lists.
C14_Witness ==
    /\ \E i, j \in 1 .. Len(cfg.CPUUtilTypes) :
           /\ i < j
           /\ ~Listed(cfg.CPUUtilTypes[i])
           /\ Listed(cfg.CPUUtilTypes[j])
    /\ Len(UtilTypes) >= 2
    /\ Len(ctorLog) = 1
    /\ TimeSeries # <<>>

(***************************************************************************)
(* C15.  Every snapshot Once has stored holds, for each enabled type, one  *)
(* value per core and a total that is the sum of the per-core values       *)
(* divided by the number of cores.  The total of irq is left undivided, so *)
(* this fails.                                                             *)
(***************************************************************************)
RECURSIVE SumOverCores(_, _, _)
SumOverCores(values, u, cs) ==
    IF cs = {} THEN 0
    ELSE LET core == CHOOSE x \in cs : TRUE
         IN  values[CoreKey(u, core)] + SumOverCores(values, u, cs \ {core})

C15_TotalIsMeanOverCores ==
    \A i \in 1 .. Len(TimeSeries) :
        \A u \in Range(UtilTypes) :
            LET values == TimeSeries[i].Values
            IN  /\ \A core \in Cores : CoreKey(u, core) \in DOMAIN values
                /\ TotalKey(u) \in DOMAIN values
                /\ NumCores * values[TotalKey(u)] = SumOverCores(values, u, Cores)

(***************************************************************************)
(* C16.  When a Results call has read a non-empty store in which a         *)
(* configured window d has fewer than 12*d snapshots, it returns, every    *)
(* key of the latest snapshot has an entry under d whose value is null, and*)
(* its error is nil unless load.Avg failed.  With a window <= 0 stored next*)
(* to d the call panics in Percentage instead, so this fails.              *)
(***************************************************************************)
\* The Results call of c has ended: it returned, or it panicked.
ResultsEnded(c) == resPC[c] \in {"done", "panic"}

LoadFailed(c) == loadRet[c].asked /\ ~loadRet[c].ok

C16_ShortHistoryGivesNull ==
    \A c \in Callers :
        (ResultsEnded(c) /\ percSeen[c] # <<>>) =>
            \A d \in Range(DurationInMinutes) :
                Len(percSeen[c]) < SamplesPerMinute * d =>
                    /\ resPC[c] = "done"
                    /\ \A key \in DOMAIN percLast[c].Values :
                           /\ UtilName(key, d) \in DOMAIN results[c].m
                           /\ results[c].m[UtilName(key, d)] = Null
                    /\ ~LoadFailed(c) => results[c].errs = <<>>

(***************************************************************************)
(* C17.  A Results call that has read the store returns; what it returns is*)
(* partial data with one combined error: the error is nil exactly when     *)
(* neither Percentage nor load.Avg failed, and else holds the message of   *)
(* each that failed; when load.Avg failed on a non-empty store, every key  *)
(* of the latest snapshot has its entry under every window; when the store *)
(* was empty and load.Avg succeeded, every enabled load average has its    *)
(* entry.  With a window <= 0 stored the call panics on a non-empty store  *)
(* and returns nothing, so this fails.                                     *)
(***************************************************************************)
StoreFailed(c) == percSeen[c] = <<>>

C17_PartialDataAndCombinedError ==
    \A c \in Callers :
        ResultsEnded(c) =>
            /\ resPC[c] = "done"
            /\ results[c].errs = <<>> <=> (~StoreFailed(c) /\ ~LoadFailed(c))
            /\ StoreFailed(c) =>
                   "CPU metrics are not collected yet" \in Range(results[c].errs)
            /\ LoadFailed(c) => "load.Avg" \in Range(results[c].errs)
            /\ Len(results[c].errs)
                   = Cardinality({p \in {"store", "load"} :
                                     \/ p = "store" /\ StoreFailed(c)
                                     \/ p = "load" /\ LoadFailed(c)})
            /\ (LoadFailed(c) /\ ~StoreFailed(c)) =>
                   \A d \in Range(DurationInMinutes) :
                       \A key \in DOMAIN percLast[c].Values :
                           UtilName(key, d) \in DOMAIN results[c].m
            /\ (StoreFailed(c) /\ loadRet[c].ok) =>
                   \A n \in {1, 5, 15} :
                       LoadAvg[n] =>
                           /\ LoadName(n) \in DOMAIN results[c].m
                           /\ results[c].m[LoadName(n)] = Number(loadRet[c].avg[n])

(***************************************************************************)
(* C18.  Every utilisation entry Results returns is of an enabled type and *)
(* of a configured window.  Once stores a zero total for each of eight     *)
(* fixed type names, enabled or not, and Results reports them all, so this *)
(* fails.                                                                  *)
(***************************************************************************)
C18_EntriesOfEnabledTypesOnly ==
    \A c \in Callers :
        resPC[c] = "done" =>
            \A n \in DOMAIN results[c].m :
                n.kind = "util" =>
                    /\ n.t \in Range(UtilTypes)
                    /\ n.d \in Range(DurationInMinutes)

(***************************************************************************)
(* C19.  Every entry Results returns is named util.<type>.<window>.total or*)
(* util.<type>.<window>.cpu<N>, N a core, <window> a configured window, or *)
(* load.avg.1, load.avg.5 or load.avg.15.  When load.Avg was called and    *)
(* succeeded, load.avg.<n> is there exactly for the enabled n, with the    *)
(* value load.Avg gave, whether the store was empty or not; otherwise no   *)
(* load entry is there.  (A name is kept as its parts: kind, type, window, *)
(* and core or total.)                                                     *)
(***************************************************************************)
WellNamed(n) ==
    \/ /\ n.kind = "util"
       /\ n.d \in Range(DurationInMinutes)
       /\ n.i \in Cores \cup {-1}
    \/ /\ n.kind = "load"
       /\ n.t = "avg"
       /\ n.d \in {1, 5, 15}
       /\ n.i = -1

C19_NamesAndLoadEntries ==
    \A c \in Callers :
        resPC[c] = "done" =>
            /\ \A n \in DOMAIN results[c].m : WellNamed(n)
            /\ \A n \in {1, 5, 15} :
                   IF loadRet[c].asked /\ loadRet[c].ok
                   THEN /\ LoadName(n) \in DOMAIN results[c].m <=> LoadAvg[n]
                        /\ LoadAvg[n] =>
                               results[c].m[LoadName(n)] = Number(loadRet[c].avg[n])
                   ELSE LoadName(n) \notin DOMAIN results[c].m

\* Results returned load.avg.1 and load.avg.15 but not load.avg.5, next to
\* utilisation entries of a non-empty store.
C19_Witness ==
    \E c \in Callers :
        /\ resPC[c] = "done"
        /\ loadRet[c].ok
        /\ percSeen[c] # <<>>
        /\ LoadAvg[1] /\ ~LoadAvg[5] /\ LoadAvg[15]
        /\ LoadName(15) \in DOMAIN results[c].m
        /\ \E n \in DOMAIN results[c].m : n.kind = "util" /\ n.i \in Cores

(***************************************************************************)
(* C20.  A step that changes the series is the step in which Once calls    *)
(* Add, and it is no step of a Results call (Percentage included) or of an *)
(* Average call: every such step changes the state of its call, and that   *)
(* state is unchanged whenever the series changes.                         *)
(***************************************************************************)
C20_ReadsLeaveSeries ==
    [][TimeSeries' # TimeSeries =>
           /\ runPC = "add" /\ runPC' = "sleep"
           /\ UNCHANGED <<resVars, avgVars>>]_vars

\* Percentage and Average have returned from a store whose head had left the
\* largest window by the time they read it, and the head is still there.
C20_Witness ==
    \E c \in Callers :
        /\ resPC[c] = "load"
        /\ avgPC = "done"
        /\ percSeen[c] # <<>>
        /\ TimeSeries = percSeen[c]
        /\ DurationInMinutes # <<>>
        /\ clock - TimeSeries[1].Time > minutes(DurationInMinutes[Len(DurationInMinutes)])
        /\ DOMAIN avgRes = Range(DurationInMinutes)

(***************************************************************************)
(* C21.  What Average returns has, for each configured window d, exactly   *)
(* the keys carried by some snapshot younger than d, and for each the sum  *)
(* of the key's values over the snapshots younger than d that carry it,    *)
(* divided by the number of those snapshots.  For a window listed twice in *)
(* the configuration the code divides twice, so this fails.                *)
(***************************************************************************)
\* The snapshots of the series younger than window d now.
InWindow(d) == {i \in 1 .. Len(TimeSeries) : clock - TimeSeries[i].Time < minutes(d)}

Carrying(d, key) == {i \in InWindow(d) : key \in DOMAIN TimeSeries[i].Values}

RECURSIVE SumOfKey(_, _)
SumOfKey(key, is) ==
    IF is = {} THEN 0
    ELSE LET i == CHOOSE x \in is : TRUE
         IN  TimeSeries[i].Values[key] + SumOfKey(key, is \ {i})

C21_AverageIsMeanOfCarriers ==
    avgPC = "done" =>
        /\ DOMAIN avgRes = Range(DurationInMinutes)
        /\ \A d \in Range(DurationInMinutes) :
               /\ DOMAIN avgRes[d] =
                      {key \in UNION {DOMAIN TimeSeries[i].Values :
                                         i \in 1 .. Len(TimeSeries)} :
                           Carrying(d, key) # {}}
               /\ \A key \in DOMAIN avgRes[d] :
                      avgRes[d][key].num * Cardinality(Carrying(d, key))
                          = SumOfKey(key, Carrying(d, key)) * avgRes[d][key].den

FirstAdded == CHOOSE t \in appended : \A o \in appended : t <= o

C23_AvailableAfterWindow ==
    \A c \in Callers :
        (resPC[c] = "load" /\ percSeen[c] # <<>> /\ ~queryFailed) =>
            \A d \in Range(DurationInMinutes) :
                (d >= 1 /\ clock - FirstAdded >= minutes(d)) =>
                    /\ d \in DOMAIN util[c].m
                    /\ \A key \in DOMAIN percLast[c].Values :
                           util[c].m[d][key] # UnavailableRate

(***************************************************************************)
(* C24.  When Percentage computes a rate for window d from samples taken   *)
(* exactly every 5 s, the reference snapshot (the one at index len - 12*d) *)
(* is 60*d seconds older than the latest.  It is 12*d - 1 intervals back,  *)
(* that is 60*d - 5 seconds, so this fails.                                *)
(***************************************************************************)
C24_ReferenceIsWindowOld ==
    \A c \in Callers :
        (resPC[c] = "load" /\ percSeen[c] # <<>> /\ EvenlySpaced(percSeen[c])) =>
            \A d \in DOMAIN util[c].m :
                LET series == percSeen[c]
                    k      == KeyInt(Len(series), d)
                IN  (k >= 0 /\ k < Len(series)) =>
                        series[Len(series)].Time - series[k + 1].Time = minutes(d)

(***************************************************************************)
(* C25.  While Once waits for the OS query, Run does not hold the mutex,   *)
(* and a Results caller that has reached Percentage's Lock can take it.    *)
(* Once locks before it starts the query, so this fails.                   *)
(***************************************************************************)
QueryInFlight == runPC = "query"

C25_QueryOutsideLock ==
    QueryInFlight =>
        /\ mu # ByRun
        /\ \A c \in Callers :
               (resPC[c] = "lock" /\ \A o \in Callers : mu # ByCaller(o))
                   => ENABLED PercLock(c)

(***************************************************************************)
(* C26.  Every window the constructor has stored is positive, and a        *)
(* requested mode is stored only if it is "avg" followed by a positive     *)
(* number.  The constructor stores whatever Atoi parses, 0 and negative    *)
(* numbers included, so this fails.                                        *)
(***************************************************************************)
C26_StoredWindowsPositive ==
    /\ \A i \in 1 .. Len(DurationInMinutes) : DurationInMinutes[i] > 0
    /\ Len(DurationInMinutes)
           = Cardinality({i \in 1 .. Len(cfg.CPUUtilDataGather) :
                             LET mode == cfg.CPUUtilDataGather[i]
                             IN  /\ HasPrefix(mode, avgPrefix)
                                 /\ ~Atoi(AfterAvg(mode)).err
                                 /\ Atoi(AfterAvg(mode)).v > 0})

(***************************************************************************)
(* C27.  Whenever Run is outside Once (Once has returned, with or without  *)
(* an error) it does not hold the mutex, and whenever a Results caller is  *)
(* outside Percentage it does not hold it either.  Once returns its query  *)
(* error with the mutex locked, so this fails.                             *)
(***************************************************************************)
C27_LockReleasedOnReturn ==
    /\ runPC \in {"once", "sleep"} => mu # ByRun
    /\ \A c \in Callers : ~ReaderInside(c) => mu # ByCaller(c)

(***************************************************************************)
(* C28.  Percentage never indexes the series outside [0, len-1]: no Results*)
(* call ends in a panic; and whenever it computes a rate for a window, the *)
(* reference snapshot is in the series and strictly older than the latest. *)
(* For a stored window <= 0 the index is len or more, so this fails.       *)
(***************************************************************************)
C28_ReferenceInsideSeries ==
    \A c \in Callers :
        /\ resPC[c] # "panic"
        /\ (resPC[c] = "window" /\ percIdx[c] <= Len(DurationInMinutes)) =>
               LET k == KeyInt(Len(TimeSeries), DurationInMinutes[percIdx[c]])
               IN  k >= 0 =>
                       /\ k <= Len(TimeSeries) - 1
                       /\ TimeSeries[k + 1].Time < percLast[c].Time

(***************************************************************************)
(* C29.  In what Results returns from a non-empty store, the entry of a key*)
(* of the latest snapshot under a configured window d is null if and only  *)
(* if the store held fewer than 12*d snapshots.  A computed rate that      *)
(* rounds to -1.0000 equals the marker and is returned as null, so this    *)
(* fails.                                                                  *)
(***************************************************************************)
C29_NullIffShortHistory ==
    \A c \in Callers :
        (resPC[c] = "done" /\ percSeen[c] # <<>>) =>
            \A d \in Range(DurationInMinutes) :
                \A key \in DOMAIN percLast[c].Values :
                    /\ UtilName(key, d) \in DOMAIN results[c].m
                    /\ results[c].m[UtilName(key, d)] = Null
                           <=> Len(percSeen[c]) < SamplesPerMinute * d

====
